---- MODULE Spec2Model ----
\* Model of the in-memory video job queue (src/lib/VideoJobQueue.js): one
\* worker, FIFO, driving each job through the product collaborator, the
\* composer (generateSlideshowVideo) and the optional publish collaborator
\* (uploadToCloudinary).
\*
\* One action is one run-to-completion turn of the JavaScript event loop:
\* add() with the synchronous prefix of _processNext() it triggers, or the
\* continuation of a job body after one awaited collaborator call settles,
\* up to its next await (or through catch/finally and the synchronous
\* prefix of the _processNext() that finally starts).
EXTENDS Integers, Sequences, FiniteSets, TLC

\* ---------------------------------------------------------------- bounds
MaxJobs == 3

\* ------------------------------------------------------------ JS values
\* null / undefined of a string-valued field (videoUrl, publicId, error,
\* previewUrl, link); no modelled string equals it.
NULL == "<null>"

PENDING == "pending"
PROCESSING == "processing"
COMPLETED == "completed"
FAILED == "failed"

JOB_STATUS == {PENDING, PROCESSING, COMPLETED, FAILED}

Terminal == {COMPLETED, FAILED}

\* Boolean(v) for a string-or-null value.
Truthy(v) == v # NULL /\ v # ""

\* ------------------------------------------------------------- job ids
JobIds == 1..MaxJobs

\* `vid_${Date.now()}_${random}`: the n-th minted token.
JobIdText(n) == "vid_" \o ToString(n)

\* path.join(outputDir, `${jobId}.mp4`): one output file per job id; the
\* model names the file by its base name.
OutputBaseName(n) == JobIdText(n) \o ".mp4"

LocalVideoUrl(n) == "/uploads/videos/" \o OutputBaseName(n)

\* ------------------------------------------------------ submitted inputs
Owners == {"owner-1"}
Categories == {"cat-1"}

\* Durations are in milliseconds (3 s = 3000, 0.5 s = 500).
DefaultSlideMs == 3000
DefaultFadeMs == 500

\* Characters of an audio URL string; trim() removes leading and trailing
\* blanks.
RECURSIVE TrimLeft(_)
TrimLeft(cs) == IF Len(cs) > 0 /\ Head(cs) = " " THEN TrimLeft(Tail(cs)) ELSE cs

RECURSIVE TrimRight(_)
TrimRight(cs) ==
    IF Len(cs) > 0 /\ cs[Len(cs)] = " "
    THEN TrimRight(SubSeq(cs, 1, Len(cs) - 1))
    ELSE cs

Trim(cs) == TrimRight(TrimLeft(cs))

\* An audioUrl option: a string (sequence of characters) or null.
AudioNull == [t |-> "null"]
AudioStr(cs) == [t |-> "string", v |-> cs]

\* The options objects the route handler and the tests pass to add():
\* none, or the four render options.
NoOptions == <<>>

RenderOptions ==
    { [audioUrl |-> AudioStr(<<" ", "a", " ">>), slideDuration |-> 4000,
       fadeDuration |-> 0, transitionType |-> "slideleft"] }

OptionSets == {NoOptions} \cup RenderOptions

\* --------------------------------------------------- collaborator results
\* A product as the product collaborator returns it. isArr is
\* Array.isArray(p.mediaUrls).
Product(isArr, media, preview, link) ==
    [isArr |-> isArr, mediaUrls |-> media, previewUrl |-> preview, link |-> link]

ProductLists ==
    { <<>>,
      << Product(FALSE, <<>>, NULL, ""),
         Product(TRUE, <<"", NULL>>, NULL, NULL) >>,
      << Product(TRUE, <<"https://ex.com/m1.jpg", "", "https://ex.com/m2.jpg">>,
                 "https://ex.com/p.jpg", NULL),
         Product(FALSE, <<>>, "", "https://ex.com/l.jpg") >> }

\* Values a collaborator rejects with: an Error with a message, and a bare
\* string (no message property). text is String(err).
\* Every rejection in the collaborators passes a truthy value
\* (`if (error) throw error`, `if (err) return reject(err)`, new Error(..)).
ThrownValues ==
    { [kind |-> "Error", message |-> "FFmpeg failed", text |-> "Error: FFmpeg failed"],
      [kind |-> "string", message |-> NULL, text |-> "boom"] }

NoThrow == [kind |-> "none", message |-> NULL, text |-> NULL]

UploadResults ==
    { [url |-> "https://res.cloudinary.com/vid.mp4", publicId |-> "folder/vid123"],
      [url |-> "https://res.cloudinary.com/custom.mp4", publicId |-> "folder/custom"] }

\* ------------------------------------------------------------------ state
VARIABLES
    jobs,        \* this.jobs: job id -> job object
    queue,       \* this.queue: pending job ids
    processing,  \* this.processing
    cloudinary,  \* whether this.cloudinary is configured (fixed at construction)
    pc,          \* per job id: where its body is suspended
    calls,       \* per job id: collaborator invocations so far
    genArgs,     \* per job id: argument of the generateSlideshowVideo call
    outFile,     \* per job id: whether the file at outputPath exists
    thrown,      \* per job id: the value its try block threw, if any
    settled,     \* per job id: how each collaborator call settled, and with what
    shifts,      \* per job id: times the id was taken off the queue
    startOrder,  \* job ids in the order they became PROCESSING
    lastAdd,     \* id returned by the most recent add(), 0 before the first
    dl,          \* one downloadUrl() call (src/lib/downloadUtils.js)
    gen          \* one generateSlideshowVideo() call (src/lib/VideoGenerator.js)

\* The job queue's own state.
qvars == <<jobs, queue, processing, cloudinary, pc, calls, genArgs, outFile,
           thrown, settled, shifts, startOrder, lastAdd>>

vars == <<jobs, queue, processing, cloudinary, pc, calls, genArgs, outFile,
          thrown, settled, shifts, startOrder, lastAdd, dl, gen>>

\* No downloadUrl() / generateSlideshowVideo() call under observation.
DlNone == [phase |-> "none"]

GenNone == [phase |-> "none"]

Awaiting == {"awaitList", "awaitGenerate", "awaitUpload"}

NoCalls == [list |-> 0, generate |-> 0, upload |-> 0]

NoArgs == [called |-> FALSE]

NoUpload == [url |-> NULL, publicId |-> NULL]

\* list, generate, upload: "none", "resolved" or "rejected".
NotSettled ==
    [list |-> "none", generate |-> "none", upload |-> "none",
     products |-> <<>>, uploaded |-> NoUpload]

\* ------------------------------------------------------------ constructor
\* The fields the constructor sets, and the empty history.
QueueInit ==
    /\ jobs = <<>>
    /\ queue = <<>>
    /\ processing = FALSE
    /\ cloudinary \in BOOLEAN
    /\ pc = [j \in JobIds |-> "none"]
    /\ calls = [j \in JobIds |-> NoCalls]
    /\ genArgs = [j \in JobIds |-> NoArgs]
    /\ outFile = [j \in JobIds |-> FALSE]
    /\ thrown = [j \in JobIds |-> NoThrow]
    /\ settled = [j \in JobIds |-> NotSettled]
    /\ shifts = [j \in JobIds |-> 0]
    /\ startOrder = <<>>
    /\ lastAdd = 0

Init ==
    /\ QueueInit
    /\ dl = DlNone
    /\ gen = GenNone

\* -------------------------------------------------------------------- add
\* The object literal of add(): the defaults, then `...options` spread
\* last, so a key of options replaces the default of the same name.
\* createdAt is a wall-clock stamp no operation reads; it is left out.
NewJob(jobId, ownerId, categoryId, options) ==
    options @@
    [id |-> jobId, ownerId |-> ownerId, categoryId |-> categoryId,
     status |-> PENDING, progress |-> 0, videoUrl |-> NULL,
     publicId |-> NULL, error |-> NULL]

\* ----------------------------------------------------------- _processNext
\* _processNext taking the job at the back of the queue (pop for shift).
RECURSIVE processNextFrom_Lifo(_)
processNextFrom_Lifo(q) ==
    IF q.processing \/ Len(q.queue) = 0
    THEN q
    ELSE LET jobId == q.queue[Len(q.queue)]
             rest == SubSeq(q.queue, 1, Len(q.queue) - 1)
             sh == Append(q.shifted, jobId)
         IN  IF jobId \notin DOMAIN q.jobs \/ q.jobs[jobId].status # PENDING
             THEN processNextFrom_Lifo([q EXCEPT !.queue = rest, !.shifted = sh])
             ELSE [q EXCEPT !.queue = rest,
                            !.shifted = sh,
                            !.processing = TRUE,
                            !.jobs[jobId].status = PROCESSING,
                            !.jobs[jobId].progress = 10,
                            !.started = Append(@, jobId)]

\* _processNext reading the head of the queue (queue[0]) without removing
\* the id of the job it starts.
RECURSIVE processNextFrom_Peek(_)
processNextFrom_Peek(q) ==
    IF q.processing \/ Len(q.queue) = 0
    THEN q
    ELSE LET jobId == Head(q.queue)
             rest == Tail(q.queue)
             sh == Append(q.shifted, jobId)
         IN  IF jobId \notin DOMAIN q.jobs \/ q.jobs[jobId].status # PENDING
             THEN processNextFrom_Peek([q EXCEPT !.queue = rest, !.shifted = sh])
             ELSE [q EXCEPT !.processing = TRUE,
                            !.jobs[jobId].status = PROCESSING,
                            !.jobs[jobId].progress = 10,
                            !.started = Append(@, jobId)]

\* The synchronous prefix of _processNext(), from its entry to the call of
\* productService.list(). q is [jobs, queue, processing, shifted, started];
\* shifted collects every id taken off the queue and started the id (if
\* any) whose body began.
RECURSIVE processNextFrom(_)
processNextFrom(q) ==
    IF q.processing \/ Len(q.queue) = 0
    THEN q
    ELSE LET jobId == Head(q.queue)
             rest == Tail(q.queue)
             sh == Append(q.shifted, jobId)
         IN  IF jobId \notin DOMAIN q.jobs \/ q.jobs[jobId].status # PENDING
             THEN processNextFrom([q EXCEPT !.queue = rest, !.shifted = sh])
             ELSE [q EXCEPT !.queue = rest,
                            !.shifted = sh,
                            !.processing = TRUE,
                            !.jobs[jobId].status = PROCESSING,
                            !.jobs[jobId].progress = 10,
                            !.started = Append(@, jobId)]

\* _processNext without the `this.processing ||` test of its first line.
processNext_IgnoreFlag(jobsV, queueV, processingV) ==
    processNextFrom([jobs |-> jobsV, queue |-> queueV, processing |-> FALSE,
                     shifted |-> <<>>, started |-> <<>>])

processNext(jobsV, queueV, processingV) ==
    processNextFrom([jobs |-> jobsV, queue |-> queueV, processing |-> processingV,
                     shifted |-> <<>>, started |-> <<>>])

Count(seq, x) == Cardinality({i \in 1..Len(seq) : seq[i] = x})

InSeq(seq, x) == \E i \in 1..Len(seq) : seq[i] = x

\* Install the outcome r of a _processNext() run: the queue's fields, and
\* for the job it started the pending productService.list() call. pcV is
\* the value of pc before the run.
Install(r, pcV) ==
    /\ jobs' = r.jobs
    /\ queue' = r.queue
    /\ processing' = r.processing
    /\ pc' = [j \in JobIds |-> IF InSeq(r.started, j) THEN "awaitList" ELSE pcV[j]]
    /\ calls' = [j \in JobIds |->
                   IF InSeq(r.started, j)
                   THEN [calls[j] EXCEPT !.list = @ + 1]
                   ELSE calls[j]]
    /\ shifts' = [j \in JobIds |-> shifts[j] + Count(r.shifted, j)]
    /\ startOrder' = startOrder \o r.started

\* --------------------------------------------------------------- job body
\* err.message || String(err)
ErrMessage(err) == IF Truthy(err.message) THEN err.message ELSE err.text

\* A catch block that also resets the progress marker.
CatchBlock_ResetProgress(jobsV, jobId, err) ==
    [jobsV EXCEPT ![jobId].status = FAILED, ![jobId].error = ErrMessage(err),
                  ![jobId].progress = 0]

\* A catch block that does not record the message.
CatchBlock_NoError(jobsV, jobId, err) ==
    [jobsV EXCEPT ![jobId].status = FAILED]

\* A catch block that sends the job back to PENDING instead of FAILED.
CatchBlock_BackToPending(jobsV, jobId, err) ==
    [jobsV EXCEPT ![jobId].status = PENDING, ![jobId].error = ErrMessage(err)]

\* catch (err) { ... } of the job body.
CatchBlock(jobsV, jobId, err) ==
    [jobsV EXCEPT ![jobId].status = FAILED, ![jobId].error = ErrMessage(err)]

\* A finally block that clears the flag but does not call _processNext().
FinallyBlock_NoNext(jobsV) ==
    [jobs |-> jobsV, queue |-> queue, processing |-> FALSE,
     shifted |-> <<>>, started |-> <<>>]

\* A finally block that calls _processNext() without clearing the flag.
FinallyBlock_KeepFlag(jobsV) == processNext(jobsV, queue, processing)

\* finally { this.processing = false; this._processNext(); }
FinallyBlock(jobsV) == processNext(jobsV, queue, FALSE)

\* A failure path that pushes the failed id back on the queue.
Fail_Requeue(jobId, err) ==
    /\ Install(processNext(CatchBlock(jobs, jobId, err), Append(queue, jobId), FALSE),
               [pc EXCEPT ![jobId] = "done"])
    /\ thrown' = [thrown EXCEPT ![jobId] = err]
    /\ UNCHANGED <<cloudinary, genArgs, outFile, lastAdd>>

\* The try block threw err: catch, then finally.
Fail(jobId, err) ==
    /\ Install(FinallyBlock(CatchBlock(jobs, jobId, err)), [pc EXCEPT ![jobId] = "done"])
    /\ thrown' = [thrown EXCEPT ![jobId] = err]
    /\ UNCHANGED <<cloudinary, genArgs, outFile, lastAdd>>

\* The flatMap without the .filter(Boolean) on the previewUrl/link fallback.
ProductUrls_NoFilter(p) ==
    LET mediaUrls == IF p.isArr THEN SelectSeq(p.mediaUrls, Truthy) ELSE <<>>
        fallback == IF Truthy(p.previewUrl) THEN p.previewUrl ELSE p.link
    IN  IF Len(mediaUrls) > 0 THEN mediaUrls
        ELSE <<fallback>>

\* The flatMap/filter of the job body: per product its truthy mediaUrls,
\* or else [previewUrl || link] if truthy.
ProductUrls(p) ==
    LET mediaUrls == IF p.isArr THEN SelectSeq(p.mediaUrls, Truthy) ELSE <<>>
        fallback == IF Truthy(p.previewUrl) THEN p.previewUrl ELSE p.link
    IN  IF Len(mediaUrls) > 0 THEN mediaUrls
        ELSE SelectSeq(<<fallback>>, Truthy)

RECURSIVE ImageUrls(_)
ImageUrls(products) ==
    IF Len(products) = 0 THEN <<>>
    ELSE ProductUrls(Head(products)) \o ImageUrls(Tail(products))

HasKey(job, k) == k \in DOMAIN job

\* The options expressions of the generateSlideshowVideo call.
AudioUrlArg(job) ==
    IF HasKey(job, "audioUrl") /\ job.audioUrl.t = "string"
       /\ Len(Trim(job.audioUrl.v)) > 0
    THEN AudioStr(Trim(job.audioUrl.v))
    ELSE AudioNull

SlideDurationArg(job) ==
    IF HasKey(job, "slideDuration") /\ job.slideDuration # 0
    THEN job.slideDuration ELSE DefaultSlideMs

FadeDurationArg(job) ==
    IF HasKey(job, "fadeDuration") /\ job.fadeDuration # 0
    THEN job.fadeDuration ELSE DefaultFadeMs

TransitionTypeArg(job) ==
    IF HasKey(job, "transitionType") /\ Truthy(job.transitionType)
    THEN job.transitionType ELSE "fade"

GenerateArgs(jobId, job, imageUrls) ==
    [called |-> TRUE, imageUrls |-> imageUrls, audioUrl |-> AudioUrlArg(job),
     slideDuration |-> SlideDurationArg(job), fadeDuration |-> FadeDurationArg(job),
     transitionType |-> TransitionTypeArg(job), outputPath |-> OutputBaseName(jobId)]

NoProducts == [kind |-> "Error", message |-> "No products in this category",
               text |-> "Error: No products in this category"]

NoImages == [kind |-> "Error", message |-> "No product images found",
             text |-> "Error: No product images found"]

\* productService.list() resolved with products.
ListResolved(jobId, products) ==
    /\ pc[jobId] = "awaitList"
    /\ settled' = [settled EXCEPT ![jobId].list = "resolved",
                                  ![jobId].products = products]
    /\ IF Len(products) = 0
       THEN Fail(jobId, NoProducts)
       ELSE IF Len(ImageUrls(products)) = 0
       THEN Fail(jobId, NoImages)
       ELSE /\ jobs' = [jobs EXCEPT ![jobId].progress = 20]
            /\ genArgs' = [genArgs EXCEPT
                             ![jobId] = GenerateArgs(jobId, jobs[jobId], ImageUrls(products))]
            /\ calls' = [calls EXCEPT ![jobId].generate = @ + 1]
            /\ pc' = [pc EXCEPT ![jobId] = "awaitGenerate"]
            /\ UNCHANGED <<queue, processing, cloudinary, outFile, thrown,
                           shifts, startOrder, lastAdd>>

\* productService.list() rejected with err.
ListRejected(jobId, err) ==
    /\ pc[jobId] = "awaitList"
    /\ settled' = [settled EXCEPT ![jobId].list = "rejected"]
    /\ Fail(jobId, err)

\* The job body reached the end of its try block: status COMPLETED, then
\* finally. fileLeft is whether the file at outputPath still exists.
Complete(jobId, url, publicId, fileLeft) ==
    /\ Install(FinallyBlock([jobs EXCEPT ![jobId].videoUrl = url,
                                         ![jobId].publicId = publicId,
                                         ![jobId].progress = 100,
                                         ![jobId].status = COMPLETED]),
               [pc EXCEPT ![jobId] = "done"])
    /\ outFile' = [outFile EXCEPT ![jobId] = fileLeft]
    /\ UNCHANGED <<cloudinary, genArgs, thrown, lastAdd>>

\* A continuation that never publishes: it records the local path and
\* completes whether or not this.cloudinary is configured.
GenerateResolved_SkipUpload(jobId) ==
    /\ pc[jobId] = "awaitGenerate"
    /\ settled' = [settled EXCEPT ![jobId].generate = "resolved"]
    /\ Complete(jobId, LocalVideoUrl(jobId), jobs[jobId].publicId, TRUE)

\* A continuation that records the local path as videoUrl before the
\* upload is awaited.
GenerateResolved_EarlyUrl(jobId) ==
    /\ pc[jobId] = "awaitGenerate"
    /\ settled' = [settled EXCEPT ![jobId].generate = "resolved"]
    /\ IF cloudinary
       THEN /\ jobs' = [jobs EXCEPT ![jobId].progress = 80,
                                    ![jobId].videoUrl = LocalVideoUrl(jobId)]
            /\ outFile' = [outFile EXCEPT ![jobId] = TRUE]
            /\ calls' = [calls EXCEPT ![jobId].upload = @ + 1]
            /\ pc' = [pc EXCEPT ![jobId] = "awaitUpload"]
            /\ UNCHANGED <<queue, processing, cloudinary, genArgs, thrown,
                           shifts, startOrder, lastAdd>>
       ELSE Complete(jobId, LocalVideoUrl(jobId), jobs[jobId].publicId, TRUE)

\* generateSlideshowVideo() resolved: the encoder exited 0 and wrote
\* outputPath. The local file system is taken to work: _ensureOutputDir()
\* and fs.unlinkSync() of an existing file do not throw.
GenerateResolved(jobId) ==
    /\ pc[jobId] = "awaitGenerate"
    /\ settled' = [settled EXCEPT ![jobId].generate = "resolved"]
    /\ IF cloudinary
       THEN /\ jobs' = [jobs EXCEPT ![jobId].progress = 80]
            /\ outFile' = [outFile EXCEPT ![jobId] = TRUE]
            /\ calls' = [calls EXCEPT ![jobId].upload = @ + 1]
            /\ pc' = [pc EXCEPT ![jobId] = "awaitUpload"]
            /\ UNCHANGED <<queue, processing, cloudinary, genArgs, thrown,
                           shifts, startOrder, lastAdd>>
       ELSE Complete(jobId, LocalVideoUrl(jobId), jobs[jobId].publicId, TRUE)

\* generateSlideshowVideo() rejected with err.
GenerateRejected(jobId, err) ==
    /\ pc[jobId] = "awaitGenerate"
    /\ settled' = [settled EXCEPT ![jobId].generate = "rejected"]
    /\ Fail(jobId, err)

\* uploadToCloudinary() resolved with res; fs.unlinkSync(outputPath).
UploadResolved(jobId, res) ==
    /\ pc[jobId] = "awaitUpload"
    /\ settled' = [settled EXCEPT ![jobId].upload = "resolved",
                                  ![jobId].uploaded = res]
    /\ Complete(jobId, res.url, res.publicId, FALSE)

\* uploadToCloudinary() rejected with err.
UploadRejected(jobId, err) ==
    /\ pc[jobId] = "awaitUpload"
    /\ settled' = [settled EXCEPT ![jobId].upload = "rejected"]
    /\ Fail(jobId, err)

\* -------------------------------------------------------------------- add
\* add() where productService.list() throws synchronously, so that the job
\* body runs through catch and finally before add() returns.
add_SyncList(ownerId, categoryId, options) ==
    /\ Len(jobs) < MaxJobs
    /\ LET jobId == Len(jobs) + 1
           r == processNext(Append(jobs, NewJob(jobId, ownerId, categoryId, options)),
                            Append(queue, jobId), processing)
           began == Len(r.started) > 0
       IN  /\ jobs' = IF began THEN CatchBlock(r.jobs, r.started[1], NoProducts) ELSE r.jobs
           /\ queue' = r.queue
           /\ processing' = IF began THEN FALSE ELSE r.processing
           /\ pc' = [j \in JobIds |-> IF InSeq(r.started, j) THEN "done" ELSE pc[j]]
           /\ calls' = [j \in JobIds |->
                          IF InSeq(r.started, j)
                          THEN [calls[j] EXCEPT !.list = @ + 1]
                          ELSE calls[j]]
           /\ shifts' = [j \in JobIds |-> shifts[j] + Count(r.shifted, j)]
           /\ startOrder' = startOrder \o r.started
           /\ lastAdd' = jobId
    /\ UNCHANGED <<cloudinary, genArgs, outFile, thrown, settled>>

\* add() without the call of _processNext() on its last line but one.
add_NoKick(ownerId, categoryId, options) ==
    /\ Len(jobs) < MaxJobs
    /\ LET jobId == Len(jobs) + 1
       IN  /\ jobs' = Append(jobs, NewJob(jobId, ownerId, categoryId, options))
           /\ queue' = Append(queue, jobId)
           /\ lastAdd' = jobId
    /\ UNCHANGED <<processing, pc, calls, shifts, startOrder>>
    /\ UNCHANGED <<cloudinary, genArgs, outFile, thrown, settled>>

add(ownerId, categoryId, options) ==
    /\ Len(jobs) < MaxJobs
    /\ LET jobId == Len(jobs) + 1
           r == processNext(Append(jobs, NewJob(jobId, ownerId, categoryId, options)),
                            Append(queue, jobId), processing)
       IN  /\ Install(r, pc)
           /\ lastAdd' = jobId
    /\ UNCHANGED <<cloudinary, genArgs, outFile, thrown, settled>>

\* ---------------------------------------------------------- specification
Submit ==
    /\ \E o \in Owners, c \in Categories, opts \in OptionSets : add(o, c, opts)
    /\ UNCHANGED <<dl, gen>>

Settle ==
    /\ \/ \E j \in JobIds, ps \in ProductLists : ListResolved(j, ps)
       \/ \E j \in JobIds, e \in ThrownValues : ListRejected(j, e)
       \/ \E j \in JobIds : GenerateResolved(j)
       \/ \E j \in JobIds, e \in ThrownValues : GenerateRejected(j, e)
       \/ \E j \in JobIds, res \in UploadResults : UploadResolved(j, res)
       \/ \E j \in JobIds, e \in ThrownValues : UploadRejected(j, e)
    /\ UNCHANGED <<dl, gen>>

Next == Submit \/ Settle

Spec == Init /\ [][Next]_vars

\* Every collaborator call eventually resolves or rejects.
FairSpec == Spec /\ WF_vars(Settle)

\* ------------------------------------------------- add() with any options
\* add() takes any object as options; these name keys of the job record
\* itself.
OverrideOptions ==
    { [id |-> 99, ownerId |-> "owner-2", categoryId |-> "cat-2",
       status |-> COMPLETED, progress |-> 100,
       videoUrl |-> "/uploads/videos/other.mp4", error |-> "none"],
      [ownerId |-> "owner-2", videoUrl |-> "/uploads/videos/other.mp4"] }

SubmitAny ==
    /\ \E o \in Owners, c \in Categories,
          opts \in OptionSets \cup OverrideOptions : add(o, c, opts)
    /\ UNCHANGED <<dl, gen>>

AnyNext == SubmitAny \/ Settle

AnySpec == Init /\ [][AnyNext]_vars

\* ============================================================ downloadUrl
\* src/lib/downloadUtils.js: one call downloadUrl(url, destPath, options).
\* Each action is one turn of the event loop.  The destination does not
\* exist before the call.
DEFAULT_MAX_REDIRECTS == 5

DEFAULT_RETRIES == 1

\* Largest explicit options.retries / options.maxRedirects that is drawn.
MaxRetries == 2

MaxRedirectsOpt == 1

\* An option that is absent or negative is drawn as -1.
RetryOptions == -1 .. MaxRetries

RedirectOptions == -1 .. MaxRedirectsOpt

\* Number(options.retries) >= 0 ? Number(options.retries) : DEFAULT_RETRIES
EffectiveRetries(o) == IF o >= 0 THEN o ELSE DEFAULT_RETRIES

\* Number(options.maxRedirects) >= 0 ? ... : DEFAULT_MAX_REDIRECTS
EffectiveMaxRedirects(o) == IF o >= 0 THEN o ELSE DEFAULT_MAX_REDIRECTS

\* res.statusCode values a server sends; 0 stands for a missing status
\* (Number(res.statusCode || 0)).
StatusCodes == {0, 200, 204, 302, 404}

IsRedirectStatus(s) == s >= 300 /\ s < 400

HttpError(s) == "HTTP " \o ToString(s)

TooManyRedirects == "Too many redirects"

DownloadTimeout == "Download timeout"

DownloadAborted == "Download aborted"

InvalidUrl == "Invalid URL"

\* Messages of the errors the request emits; an error may have no message.
RequestErrors == {"socket hang up", DownloadTimeout, ""}

\* Messages of the errors finish(err) receives from the response or from
\* the write stream once it is open.
StreamErrors == {DownloadAborted, "ENOSPC"}

\* Message of the write stream's error when the open itself fails.
OpenError == "EACCES"

DestPath == "/tmp/dest.jpg"

\* URLs: an origin and the segments of the path.
OriginalUrl == [origin |-> "shop.example", path |-> <<"media", "pic.jpg">>]

\* res.headers.location: absent (or empty), an absolute URL, a path from
\* the root, or a path relative to the current document.
NoLocation == [kind |-> "none", origin |-> "", path |-> <<>>]

AbsoluteLocation ==
    [kind |-> "absolute", origin |-> "cdn.example", path |-> <<"pic.jpg">>]

RootLocation == [kind |-> "root", origin |-> "", path |-> <<"moved.jpg">>]

RelativeLocation == [kind |-> "relative", origin |-> "", path |-> <<"v2.jpg">>]

\* A resolution that takes the original URL as the base.
ResolveUrl_OriginalBase(location, base) ==
    IF location.kind = "absolute"
    THEN [origin |-> location.origin, path |-> location.path]
    ELSE IF location.kind = "root"
    THEN [origin |-> OriginalUrl.origin, path |-> location.path]
    ELSE [origin |-> OriginalUrl.origin,
          path |-> SubSeq(OriginalUrl.path, 1, Len(OriginalUrl.path) - 1)
                   \o location.path]

\* new URL(location, urlObj)
ResolveUrl(location, base) ==
    IF location.kind = "absolute"
    THEN [origin |-> location.origin, path |-> location.path]
    ELSE IF location.kind = "root"
    THEN [origin |-> base.origin, path |-> location.path]
    ELSE [origin |-> base.origin,
          path |-> SubSeq(base.path, 1, Len(base.path) - 1) \o location.path]

\* The Location headers drawn together with every kind of failure, and
\* those drawn where redirects are followed in depth.
Locations == {NoLocation, AbsoluteLocation}

AllLocations == {NoLocation, AbsoluteLocation, RootLocation, RelativeLocation}

DlIdle ==
    [phase |-> "idle", retries |-> 0, maxRedirects |-> 0, urlOk |-> TRUE,
     attempt |-> 0, left |-> 0, hops |-> 0, attempts |-> 0,
     file |-> FALSE, stale |-> FALSE, lastError |-> NULL,
     message |-> NULL, result |-> NULL,
     responses |-> 0, status |-> -1, location |-> NoLocation,
     url |-> OriginalUrl]

\* An attempt is under way: request sent, write stream being opened, or
\* response body being piped into the open file.
InAttempt(d) == d.phase \in {"request", "opening", "streaming"}

DlSettled(d) == d.phase \in {"resolved", "rejected"}

\* The error thrown after the loop.
FinalMessage_AlwaysAnnotated(lastError, retries) ==
    LET message == IF lastError # "" THEN lastError ELSE "Download failed"
    IN  message \o " after " \o ToString(retries + 1) \o " attempts"

FinalMessage(lastError, retries) ==
    LET message == IF lastError # "" THEN lastError ELSE "Download failed"
    IN  IF retries > 0
        THEN message \o " after " \o ToString(retries + 1) \o " attempts"
        ELSE message

\* A catch block that never breaks out of the loop.
Caught_AlwaysRetry(d, msg) ==
    [d EXCEPT !.phase = "backoff", !.lastError = msg]

\* The catch block of the loop, and the throw after it when the loop ends.
Caught(d, msg) ==
    IF d.attempt >= d.retries
    THEN [d EXCEPT !.phase = "rejected", !.lastError = msg,
                   !.message = FinalMessage(msg, d.retries)]
    ELSE [d EXCEPT !.phase = "backoff", !.lastError = msg]

\* cleanupFile(destPath): unlinkSync, errors ignored.
cleanupFile(d) == [d EXCEPT !.file = FALSE]

\* The top-level downloadOnce(url, destPath, options) of one loop iteration:
\* new URL(url) throws into the catch block, otherwise the request is sent
\* for the original URL with the configured redirect budget.
downloadOnce(d) ==
    LET c == [d EXCEPT !.attempts = @ + 1]
    IN  IF ~c.urlOk
        THEN Caught(c, InvalidUrl)
        ELSE [c EXCEPT !.phase = "request", !.left = c.maxRedirects,
                       !.hops = 0, !.url = OriginalUrl]

\* downloadUrl(url, destPath, options) is called.
DlStart(r, m, ok) ==
    /\ dl.phase = "idle"
    /\ dl' = downloadOnce([dl EXCEPT !.retries = EffectiveRetries(r),
                                     !.maxRedirects = EffectiveMaxRedirects(m),
                                     !.urlOk = ok, !.attempt = 0])

\* A response that is written to no file at all.
\* The response that was received, kept for the record.
Received(d, status, location) ==
    [d EXCEPT !.responses = @ + 1, !.status = status, !.location = location]

\* A response callback that pipes every non-redirect response to the file.
Response_WriteAnyStatus(status, location) ==
    /\ dl.phase = "request"
    /\ LET d == Received(dl, status, location)
       IN  dl' = IF IsRedirectStatus(status) /\ location.kind # "none"
                 THEN IF d.left <= 0
                      THEN Caught(d, TooManyRedirects)
                      ELSE [d EXCEPT !.left = @ - 1, !.hops = @ + 1,
                                     !.url = ResolveUrl(location, d.url)]
                 ELSE [d EXCEPT !.phase = "opening"]

\* The response callback.
Response(status, location) ==
    /\ dl.phase = "request"
    /\ LET d == Received(dl, status, location)
       IN  dl' = IF IsRedirectStatus(status) /\ location.kind # "none"
                 THEN IF d.left <= 0
                      THEN Caught(d, TooManyRedirects)
                      ELSE [d EXCEPT !.left = @ - 1, !.hops = @ + 1,
                                     !.url = ResolveUrl(location, d.url)]
                 ELSE IF status # 200
                      THEN Caught(d, HttpError(status))
                      ELSE [d EXCEPT !.phase = "opening"]

\* fs.createWriteStream's open completes: the file exists from here on.
OpenDone ==
    /\ dl.phase = "opening"
    /\ dl' = [dl EXCEPT !.phase = "streaming", !.file = TRUE]

\* out 'error' because the open failed: finish(err), nothing was created.
OpenFailed ==
    /\ dl.phase = "opening"
    /\ dl' = Caught(cleanupFile(dl), OpenError)

\* res 'error' / 'aborted' or out 'error' while piping: finish(err) destroys
\* the stream, unlinks the destination and rejects.  When the stream is still
\* being opened the unlink finds nothing and the open is still to complete.
StreamError(msg) ==
    /\ dl.phase \in {"opening", "streaming"}
    /\ dl' = Caught([cleanupFile(dl) EXCEPT !.stale = (dl.phase = "opening") \/ @],
                    msg)

\* req 'error' (a timeout destroys the request with 'Download timeout').
RequestError(msg) ==
    /\ InAttempt(dl)
    /\ dl' = Caught([cleanupFile(dl) EXCEPT !.stale = (dl.phase = "opening") \/ @],
                    msg)

\* out 'finish': finish(null), out.close(() => resolve(destPath)).
StreamFinish ==
    /\ dl.phase = "streaming"
    /\ dl' = [dl EXCEPT !.phase = "resolved", !.result = DestPath]

\* await wait(delayMs) is over: attempt++ and the next loop iteration.
RetryTimer ==
    /\ dl.phase = "backoff"
    /\ dl' = downloadOnce([dl EXCEPT !.attempt = @ + 1])

\* The open of a write stream that was destroyed before it was open
\* completes and creates the (empty) file.
StaleOpen ==
    /\ dl.stale
    /\ dl' = [dl EXCEPT !.stale = FALSE, !.file = TRUE]

DlCall ==
    /\ dl.phase = "idle"
    /\ \E r \in RetryOptions, m \in RedirectOptions, ok \in BOOLEAN :
           DlStart(r, m, ok)
    /\ UNCHANGED <<qvars, gen>>

DlStep ==
    /\ \/ \E s \in StatusCodes, loc \in Locations : Response(s, loc)
       \/ OpenDone
       \/ OpenFailed
       \/ \E msg \in StreamErrors : StreamError(msg)
       \/ \E msg \in RequestErrors : RequestError(msg)
       \/ StreamFinish
       \/ RetryTimer
       \/ StaleOpen
    /\ UNCHANGED <<qvars, gen>>

DlInit ==
    /\ QueueInit
    /\ dl = DlIdle
    /\ gen = GenNone

DlNext == DlCall \/ DlStep

DlSpec == DlInit /\ [][DlNext]_vars

\* Every request is answered, fails or times out, every open completes or
\* fails, every body ends or breaks off, and every timer fires.
DlFairSpec == DlSpec /\ WF_vars(DlNext)

\* ---------------------------------------------------- redirects in depth
\* The same call with every kind of Location header, for a well-formed
\* URL and the failures that lead to a retry.
RedirectCall ==
    /\ dl.phase = "idle"
    /\ \E r \in {0, 1}, m \in RedirectOptions : DlStart(r, m, TRUE)
    /\ UNCHANGED <<qvars, gen>>

RedirectStep ==
    /\ \/ \E s \in {200, 302, 404}, loc \in AllLocations : Response(s, loc)
       \/ OpenDone
       \/ RequestError(DownloadTimeout)
       \/ StreamFinish
       \/ RetryTimer
    /\ UNCHANGED <<qvars, gen>>

RedirectNext == RedirectCall \/ RedirectStep

RedirectSpec == DlInit /\ [][RedirectNext]_vars

\* ================================================= generateSlideshowVideo
\* src/lib/VideoGenerator.js: one call of generateSlideshowVideo(opts).
\* Durations are in milliseconds.
DEFAULT_SLIDE_DURATION == 3000

DEFAULT_FADE_DURATION == 500

DEFAULT_TRANSITION_TYPE == "fade"

\* The 0.05 s kept free at the end of a slide.
TransitionMargin == 50

\* retries of IMAGE_DOWNLOAD_OPTIONS and AUDIO_DOWNLOAD_OPTIONS.
IMAGE_RETRIES == 1

AUDIO_RETRIES == 2

\* Longest imageUrls list that is drawn.
MaxImages == 2

\* A duration option: a finite number, or a value Number() does not turn
\* into one (undefined takes the parameter default, which is the fallback).
Num(v) == [k |-> "num", v |-> v]

NotANumber == [k |-> "nan", v |-> 0]

\* Infinity: a number that is truthy and not finite.
Infinite == [k |-> "inf", v |-> 0]

Max(a, b) == IF a >= b THEN a ELSE b

Min(a, b) == IF a <= b THEN a ELSE b

\* toPositiveNumber accepting 0 (n < 0 for n <= 0).
toPositiveNumber_ZeroAllowed(value, fallback) ==
    IF value.k # "num" \/ value.v < 0 THEN fallback ELSE value.v

\* !Number.isFinite(n) || n <= 0
toPositiveNumber(value, fallback) ==
    IF value.k # "num" \/ value.v <= 0 THEN fallback ELSE value.v

\* `job.fadeDuration || 0.5` at the queue's call of the composer: 0 and
\* NaN are falsy and give the default, every other number passes through.
OrDefault(value, fallback) ==
    IF value.k = "nan" \/ (value.k = "num" /\ value.v = 0)
    THEN Num(fallback)
    ELSE value

UpperCase ==
    <<"A", "B", "C", "D", "E", "F", "G", "H", "I", "J", "K", "L", "M",
    "N", "O", "P", "Q", "R", "S", "T", "U", "V", "W", "X", "Y", "Z">>

LowerCase ==
    <<"a", "b", "c", "d", "e", "f", "g", "h", "i", "j", "k", "l", "m",
    "n", "o", "p", "q", "r", "s", "t", "u", "v", "w", "x", "y", "z">>

LowerChar(c) ==
    IF \E i \in 1..26 : UpperCase[i] = c
    THEN LowerCase[CHOOSE i \in 1..26 : UpperCase[i] = c]
    ELSE c

toLowerCase(cs) == [i \in 1..Len(cs) |-> LowerChar(cs[i])]

TRANSITION_ALIASES ==
    { [key |-> <<"f", "a", "d", "e">>,
       name |-> "fade"],
      [key |-> <<"c", "r", "o", "s", "s", "f", "a", "d", "e">>,
       name |-> "fade"],
      [key |-> <<"c", "u", "t">>,
       name |-> "cut"],
      [key |-> <<"n", "o", "n", "e">>,
       name |-> "cut"],
      [key |-> <<"s", "l", "i", "d", "e", "l", "e", "f", "t">>,
       name |-> "slideleft"],
      [key |-> <<"s", "l", "i", "d", "e", "-", "l", "e", "f", "t">>,
       name |-> "slideleft"],
      [key |-> <<"s", "l", "i", "d", "e", "_", "l", "e", "f", "t">>,
       name |-> "slideleft"],
      [key |-> <<"s", "l", "i", "d", "e", "r", "i", "g", "h", "t">>,
       name |-> "slideright"],
      [key |-> <<"s", "l", "i", "d", "e", "-", "r", "i", "g", "h", "t">>,
       name |-> "slideright"],
      [key |-> <<"s", "l", "i", "d", "e", "_", "r", "i", "g", "h", "t">>,
       name |-> "slideright"],
      [key |-> <<"w", "i", "p", "e", "l", "e", "f", "t">>,
       name |-> "wipeleft"],
      [key |-> <<"w", "i", "p", "e", "-", "l", "e", "f", "t">>,
       name |-> "wipeleft"],
      [key |-> <<"w", "i", "p", "e", "_", "l", "e", "f", "t">>,
       name |-> "wipeleft"],
      [key |-> <<"w", "i", "p", "e", "r", "i", "g", "h", "t">>,
       name |-> "wiperight"],
      [key |-> <<"w", "i", "p", "e", "-", "r", "i", "g", "h", "t">>,
       name |-> "wiperight"],
      [key |-> <<"w", "i", "p", "e", "_", "r", "i", "g", "h", "t">>,
       name |-> "wiperight"],
      [key |-> <<"d", "i", "s", "s", "o", "l", "v", "e">>,
       name |-> "dissolve"] }

\* String(input || '').trim().toLowerCase(), then the alias table.
normalizeTransitionType(input) ==
    LET raw == toLowerCase(Trim(input))
    IN  IF \E a \in TRANSITION_ALIASES : a.key = raw
        THEN (CHOOSE a \in TRANSITION_ALIASES : a.key = raw).name
        ELSE DEFAULT_TRANSITION_TYPE

\* A transition duration that is not clamped to the slide.
SafeTransitionDuration_NoClamp(transitionName, requested, maxTransitionDuration) ==
    IF transitionName = "cut" THEN 0 ELSE Max(0, requested)

SafeTransitionDuration(transitionName, requested, maxTransitionDuration) ==
    IF transitionName = "cut"
    THEN 0
    ELSE Max(0, Min(requested, maxTransitionDuration))

FadeIn(d) == [t |-> "in", st |-> 0, d |-> d]

FadeOut(st, d) == [t |-> "out", st |-> st, d |-> d]

\* Fades on every slide, the first and the last included.
SlideFades_AllSlides(i, n, useFade, d, fadeOutStart) ==
    (IF useFade THEN <<FadeIn(d)>> ELSE <<>>)
    \o (IF useFade THEN <<FadeOut(fadeOutStart, d)>> ELSE <<>>)

\* The fade filters appended to the chain of slide i (0-based) of n.
SlideFades(i, n, useFade, d, fadeOutStart) ==
    (IF useFade /\ i > 0 THEN <<FadeIn(d)>> ELSE <<>>)
    \o (IF useFade /\ i < n - 1 THEN <<FadeOut(fadeOutStart, d)>> ELSE <<>>)

\* A plan that fades only for the style named fade.
FilterPlan_FadeOnly(n, slideDuration, fadeDuration, transitionType) ==
    LET safeSlideDuration ==
            toPositiveNumber(slideDuration, DEFAULT_SLIDE_DURATION)
        transitionName == normalizeTransitionType(transitionType)
        maxTransitionDuration == Max(0, safeSlideDuration - TransitionMargin)
        requestedTransitionDuration ==
            toPositiveNumber(fadeDuration, DEFAULT_FADE_DURATION)
        safeTransitionDuration ==
            SafeTransitionDuration(transitionName, requestedTransitionDuration,
                                   maxTransitionDuration)
        useTransitionFadeFallback ==
            n > 1 /\ transitionName = "fade" /\ safeTransitionDuration > 0
        fadeOutStart == Max(0, safeSlideDuration - safeTransitionDuration)
    IN  [made |-> TRUE,
         n |-> n,
         safeSlideDuration |-> safeSlideDuration,
         transitionName |-> transitionName,
         safeTransitionDuration |-> safeTransitionDuration,
         chains |-> [i \in 1..n |->
                        SlideFades(i - 1, n, useTransitionFadeFallback,
                                   safeTransitionDuration, fadeOutStart)],
         join |-> IF n = 1 THEN "null" ELSE "concat"]

\* Lines 153-204: the durations and the video part of the filter graph for
\* n downloaded slides.  chains[i + 1] holds the fades of slide i.
FilterPlan(n, slideDuration, fadeDuration, transitionType) ==
    LET safeSlideDuration ==
            toPositiveNumber(slideDuration, DEFAULT_SLIDE_DURATION)
        transitionName == normalizeTransitionType(transitionType)
        maxTransitionDuration == Max(0, safeSlideDuration - TransitionMargin)
        requestedTransitionDuration ==
            toPositiveNumber(fadeDuration, DEFAULT_FADE_DURATION)
        safeTransitionDuration ==
            SafeTransitionDuration(transitionName, requestedTransitionDuration,
                                   maxTransitionDuration)
        useTransitionFadeFallback ==
            n > 1 /\ transitionName # "cut" /\ safeTransitionDuration > 0
        fadeOutStart == Max(0, safeSlideDuration - safeTransitionDuration)
    IN  [made |-> TRUE,
         n |-> n,
         safeSlideDuration |-> safeSlideDuration,
         transitionName |-> transitionName,
         safeTransitionDuration |-> safeTransitionDuration,
         chains |-> [i \in 1..n |->
                        SlideFades(i - 1, n, useTransitionFadeFallback,
                                   safeTransitionDuration, fadeOutStart)],
         join |-> IF n = 1 THEN "null" ELSE "concat"]

NoPlan ==
    [made |-> FALSE, n |-> 0, safeSlideDuration |-> 0, transitionName |-> "",
     safeTransitionDuration |-> 0, chains |-> <<>>, join |-> ""]

\* ------------------------------------------------------- composer inputs
\* An imageUrls entry: null, '', a non-string, a string new URL() refuses,
\* or a URL.
ImageEntries == {"null", "empty", "number", "bad", "url"}

\* !url || typeof url !== 'string'
Skipped(entry) == entry \in {"null", "empty", "number"}

RECURSIVE SeqsUpTo(_, _)
SeqsUpTo(S, n) ==
    IF n = 0 THEN {<<>>}
    ELSE LET shorter == SeqsUpTo(S, n - 1)
         IN  shorter \cup {Append(s, x) : s \in shorter, x \in S}

\* imageUrls: missing, or a list.
ImageUrlInputs ==
    {[given |-> FALSE, list |-> <<>>]}
    \cup {[given |-> TRUE, list |-> l] : l \in SeqsUpTo(ImageEntries, MaxImages)}

SlideDurationInputs == {NotANumber, Num(0), Num(30), Num(3000)}

FadeDurationInputs ==
    {NotANumber, Infinite, Num(-500), Num(0), Num(500), Num(700), Num(4000)}

\* transitionType strings; the empty one stands for a missing option too.
TransitionInputs ==
    { <<>>,
      <<"f", "a", "d", "e">>,
      <<" ", "C", "u", "t", " ">>,
      <<"N", "O", "N", "E">>,
      <<"S", "l", "i", "d", "e", "-", "L", "e", "f", "t">>,
      <<"s", "l", "i", "d", "e", "_", "r", "i", "g", "h", "t">>,
      <<"w", "i", "p", "e", "l", "e", "f", "t">>,
      <<"W", "i", "p", "e", "-", "R", "i", "g", "h", "t">>,
      <<"d", "i", "s", "s", "o", "l", "v", "e">>,
      <<"b", "o", "g", "u", "s">> }

\* The render options drawn for whole calls.
CallSlideDurations == {Num(3000)}

CallFadeDurations == {NotANumber, Num(700)}

CallTransitions == {<<>>, <<" ", "C", "u", "t", " ">>}

FfmpegExitCodes == {0, 1}

SpawnError == "spawn ffmpeg ENOENT"

FfmpegExited(code) == "FFmpeg exited " \o ToString(code)

\* What a downloadUrl() that rejects leaves behind: its message, whether an
\* earlier attempt's late open has put a file at the destination, and
\* whether the last attempt's open is still to complete.
DownloadFailures(retries) ==
    {[message |-> FinalMessage(e, retries), file |-> f, pending |-> p] :
        e \in {HttpError(404), DownloadTimeout}, f \in BOOLEAN, p \in BOOLEAN}

ImageFile(i) == "img_00" \o ToString(i) \o ".jpg"

AudioFile == "audio.mp3"

OutputPath == "/uploads/videos/out.mp4"

\* ------------------------------------------------------- encoder arguments
\* The shortest audio the filter is asked for (Math.max(0.1, totalDuration)).
MinAudioMs == 100

NoAudioFilter == [on |-> FALSE, input |-> 0, apad |-> FALSE, atrim |-> 0]

\* An audio filter trimmed to one slide.
AudioFilter_OneSlide(n, safeSlideDuration) ==
    [on |-> TRUE, input |-> n, apad |-> TRUE,
     atrim |-> Max(MinAudioMs, safeSlideDuration)]

\* Lines 210-217: [n:a]aformat,volume,apad,atrim=0:<total>,asetpts[outa].
AudioFilter(n, safeSlideDuration) ==
    [on |-> TRUE, input |-> n, apad |-> TRUE,
     atrim |-> Max(MinAudioMs, n * safeSlideDuration)]

NoEncoderArgs ==
    [made |-> FALSE, inputs |-> <<>>, inputDuration |-> 0, chains |-> <<>>,
     join |-> "", audioFilter |-> NoAudioFilter, map |-> <<>>,
     audioCodec |-> NULL, shortest |-> FALSE, output |-> NULL]

\* Lines 166-236: the argument list handed to runFfmpeg for plan p of the
\* images in localPaths, with or without the downloaded audio.
EncoderArgs(localPaths, p, withAudio) ==
    [made |-> TRUE,
     inputs |-> localPaths \o (IF withAudio THEN <<AudioFile>> ELSE <<>>),
     inputDuration |-> p.safeSlideDuration,
     chains |-> p.chains,
     join |-> p.join,
     audioFilter |-> IF withAudio THEN AudioFilter(p.n, p.safeSlideDuration)
                     ELSE NoAudioFilter,
     map |-> IF withAudio THEN <<"[outv]", "[outa]">> ELSE <<"[outv]", "-an">>,
     audioCodec |-> IF withAudio THEN "aac" ELSE NULL,
     shortest |-> withAudio,
     output |-> OutputPath]

\* ------------------------------------------------------ composer machine
GenIdle ==
    [phase |-> "idle",
     imageUrls |-> [given |-> FALSE, list |-> <<>>],
     outputPath |-> FALSE, audioUrl |-> FALSE,
     slideDuration |-> NotANumber, fadeDuration |-> NotANumber,
     transitionType |-> <<>>,
     i |-> 0, localPaths |-> <<>>, plan |-> NoPlan,
     tmpMade |-> FALSE, tmpDir |-> FALSE, files |-> {}, pending |-> NULL,
     fetched |-> <<>>, failedFetch |-> FALSE, spawned |-> 0,
     lateOpens |-> 0, output |-> FALSE, result |-> NULL, message |-> NULL,
     args |-> NoEncoderArgs]

GenSettled(g) == g.phase \in {"resolved", "rejected"}

\* rmRecursive(tmpDir): unlink every entry, then rmdir.
rmRecursive(g) == [g EXCEPT !.tmpDir = FALSE, !.files = {}]

\* A finally block that cleans up only after success.
Finally_KeepOnThrow(g, ok, value) ==
    IF ok
    THEN [rmRecursive(g) EXCEPT !.phase = "resolved", !.result = value]
    ELSE [g EXCEPT !.phase = "rejected", !.message = value]

\* The finally block, then the promise settles: return value or thrown
\* error's message.
Finally(g, ok, value) ==
    IF ok
    THEN [rmRecursive(g) EXCEPT !.phase = "resolved", !.result = value]
    ELSE [rmRecursive(g) EXCEPT !.phase = "rejected", !.message = value]

\* Lines 153-238 up to the next await: the plan, then the audio download
\* or, without audio, the encoder.
AfterImages(g) ==
    LET p == FilterPlan(Len(g.localPaths), g.slideDuration, g.fadeDuration,
                        g.transitionType)
    IN  IF g.audioUrl
        THEN [g EXCEPT !.plan = p, !.phase = "audio",
                       !.fetched = Append(@, AudioFile)]
        ELSE [g EXCEPT !.plan = p, !.phase = "ffmpeg", !.spawned = @ + 1,
                       !.args = EncoderArgs(g.localPaths, p, FALSE)]

\* The image loop from index g.i (0-based) up to its next await.
RECURSIVE ImageLoop(_)
ImageLoop(g) ==
    IF g.i >= Len(g.imageUrls.list)
    THEN IF Len(g.localPaths) = 0
         THEN Finally(g, FALSE, "No valid images could be downloaded")
         ELSE AfterImages(g)
    ELSE LET url == g.imageUrls.list[g.i + 1]
         IN  IF Skipped(url) THEN ImageLoop([g EXCEPT !.i = @ + 1])
             ELSE IF url = "bad" THEN Finally(g, FALSE, InvalidUrl)
             ELSE [g EXCEPT !.phase = "image",
                            !.fetched = Append(@, ImageFile(g.i))]

\* A body that creates the scratch directory before validating.
Body_DirFirst(g) ==
    LET d == [g EXCEPT !.tmpMade = TRUE, !.tmpDir = TRUE]
    IN  IF ~d.imageUrls.given \/ Len(d.imageUrls.list) = 0
        THEN [d EXCEPT !.phase = "rejected",
                       !.message = "At least one image URL is required"]
        ELSE IF ~d.outputPath
        THEN [d EXCEPT !.phase = "rejected",
                       !.message = "outputPath is required"]
        ELSE ImageLoop(d)

\* Lines 128-147: validation, ensureDir(tmpDir), then the image loop.
Body(g) ==
    IF ~g.imageUrls.given \/ Len(g.imageUrls.list) = 0
    THEN [g EXCEPT !.phase = "rejected",
                   !.message = "At least one image URL is required"]
    ELSE IF ~g.outputPath
    THEN [g EXCEPT !.phase = "rejected",
                   !.message = "outputPath is required"]
    ELSE ImageLoop([g EXCEPT !.tmpMade = TRUE, !.tmpDir = TRUE])

\* generateSlideshowVideo(opts) is called.
generateSlideshowVideo(opts) ==
    /\ gen.phase = "idle"
    /\ gen' = Body([gen EXCEPT !.imageUrls = opts.imageUrls,
                               !.outputPath = opts.outputPath,
                               !.audioUrl = opts.audioUrl,
                               !.slideDuration = opts.slideDuration,
                               !.fadeDuration = opts.fadeDuration,
                               !.transitionType = opts.transitionType])

\* A loop that puts each downloaded image in front of the earlier ones.
ImageResolved_Reversed ==
    /\ gen.phase = "image"
    /\ gen' = ImageLoop([gen EXCEPT !.files = @ \cup {ImageFile(gen.i)},
                                    !.localPaths = <<ImageFile(gen.i)>> \o @,
                                    !.i = @ + 1])

\* await downloadUrl(url, dest, IMAGE_DOWNLOAD_OPTIONS) resolves.
ImageResolved ==
    /\ gen.phase = "image"
    /\ gen' = ImageLoop([gen EXCEPT !.files = @ \cup {ImageFile(gen.i)},
                                    !.localPaths = Append(@, ImageFile(gen.i)),
                                    !.i = @ + 1])

\* What the failed download left in the scratch directory.
Leftover(g, f, name) ==
    [g EXCEPT !.files = IF f.file THEN @ \cup {name} ELSE @,
              !.pending = IF f.pending THEN name ELSE @,
              !.failedFetch = TRUE]

\* An image loop that skips an image whose download failed.
ImageRejected_Skip(f) ==
    /\ gen.phase = "image"
    /\ gen' = ImageLoop([Leftover(gen, f, ImageFile(gen.i)) EXCEPT !.i = @ + 1])

\* await downloadUrl(...) for an image rejects: nothing catches it.
ImageRejected(f) ==
    /\ gen.phase = "image"
    /\ gen' = Finally(Leftover(gen, f, ImageFile(gen.i)), FALSE, f.message)

\* await downloadUrl(audioUrl, audioPath, AUDIO_DOWNLOAD_OPTIONS) resolves.
AudioResolved ==
    /\ gen.phase = "audio"
    /\ gen' = [gen EXCEPT !.files = @ \cup {AudioFile}, !.phase = "ffmpeg",
                          !.spawned = @ + 1,
                          !.args = EncoderArgs(gen.localPaths, gen.plan, TRUE)]

AudioRejected(f) ==
    /\ gen.phase = "audio"
    /\ gen' = Finally(Leftover(gen, f, AudioFile), FALSE, f.message)

\* proc 'close': code 0 resolves, the function returns outputPath.
FfmpegClosed(code) ==
    /\ gen.phase = "ffmpeg"
    /\ gen' = IF code = 0
              THEN Finally([gen EXCEPT !.output = TRUE], TRUE, OutputPath)
              ELSE Finally(gen, FALSE, FfmpegExited(code))

\* proc 'error'.
FfmpegError ==
    /\ gen.phase = "ffmpeg"
    /\ gen' = Finally(gen, FALSE, SpawnError)

\* The open of a destroyed write stream completes: it creates the file
\* when its directory is still there and fails otherwise.
LateOpen ==
    /\ gen.pending # NULL
    /\ gen' = [gen EXCEPT !.pending = NULL, !.lateOpens = @ + 1,
                          !.files = IF gen.tmpDir THEN @ \cup {gen.pending}
                                    ELSE @]

GenCall ==
    /\ gen.phase = "idle"
    /\ \E imageUrls \in ImageUrlInputs, outputPath \in BOOLEAN,
          audioUrl \in BOOLEAN, slideDuration \in CallSlideDurations,
          fadeDuration \in CallFadeDurations,
          transitionType \in CallTransitions :
           generateSlideshowVideo(
               [imageUrls |-> imageUrls, outputPath |-> outputPath,
                audioUrl |-> audioUrl, slideDuration |-> slideDuration,
                fadeDuration |-> fadeDuration,
                transitionType |-> transitionType])
    /\ UNCHANGED <<qvars, dl>>

GenStep ==
    /\ \/ ImageResolved
       \/ \E f \in DownloadFailures(IMAGE_RETRIES) : ImageRejected(f)
       \/ AudioResolved
       \/ \E f \in DownloadFailures(AUDIO_RETRIES) : AudioRejected(f)
       \/ \E code \in FfmpegExitCodes : FfmpegClosed(code)
       \/ FfmpegError
       \/ LateOpen
    /\ UNCHANGED <<qvars, dl>>

GenInit ==
    /\ QueueInit
    /\ dl = DlNone
    /\ gen = GenIdle

GenNext == GenCall \/ GenStep

GenSpec == GenInit /\ [][GenNext]_vars

\* ---------------------------------------------------------- filter graph
\* Lines 153-204 on their own: the call has downloaded n images and is at
\* line 153, for every combination of the render options.
MaxSlides == 3

AtCompose(n, audioUrl, slideDuration, fadeDuration, transitionType) ==
    [GenIdle EXCEPT
        !.phase = "compose",
        !.audioUrl = audioUrl,
        !.imageUrls = [given |-> TRUE, list |-> [k \in 1..n |-> "url"]],
        !.outputPath = TRUE,
        !.slideDuration = slideDuration,
        !.fadeDuration = fadeDuration,
        !.transitionType = transitionType,
        !.i = n,
        !.localPaths = [k \in 1..n |-> ImageFile(k - 1)],
        !.fetched = [k \in 1..n |-> ImageFile(k - 1)],
        !.files = {ImageFile(k - 1) : k \in 1..n},
        !.tmpMade = TRUE,
        !.tmpDir = TRUE]

Compose ==
    /\ gen.phase = "compose"
    /\ gen' = AfterImages(gen)
    /\ UNCHANGED <<qvars, dl>>

PlanInit ==
    /\ QueueInit
    /\ dl = DlNone
    /\ gen \in {AtCompose(n, a, sd, fd, tt) :
                   n \in 1..MaxSlides, a \in BOOLEAN,
                   sd \in SlideDurationInputs,
                   fd \in FadeDurationInputs, tt \in TransitionInputs}

\* The audio download resolves and the encoder is started.
ComposeAudio ==
    /\ AudioResolved
    /\ UNCHANGED <<qvars, dl>>

PlanNext == Compose \/ ComposeAudio

PlanSpec == PlanInit /\ [][PlanNext]_vars


\* ----------------------------------------------------------------- claims
StatusOf(j) == jobs[j].status

Submitted == DOMAIN jobs

\* C1: in every reachable state at most one job has status PROCESSING.
C1_AtMostOneProcessing ==
    Cardinality({j \in Submitted : StatusOf(j) = PROCESSING}) <= 1

\* A job is PROCESSING while two more wait in the queue.
C1_Witness ==
    /\ \E j \in Submitted : StatusOf(j) = PROCESSING
    /\ Len(queue) = 2

\* One step of a job's status: none, PENDING -> PROCESSING,
\* PROCESSING -> COMPLETED or PROCESSING -> FAILED.
ForwardStep(a, b) ==
    \/ a = b
    \/ a = PENDING /\ b = PROCESSING
    \/ a = PROCESSING /\ b \in Terminal

\* C2: a job's status only moves PENDING -> PROCESSING -> COMPLETED or
\* PENDING -> PROCESSING -> FAILED; a job that is COMPLETED or FAILED is
\* never changed again, in any field.
C2_ForwardOnly ==
    [][\A j \in Submitted :
         /\ j \in DOMAIN jobs'
         /\ ForwardStep(jobs[j].status, jobs'[j].status)
         /\ jobs[j].status \in Terminal => jobs'[j] = jobs[j]]_vars

\* One job ended COMPLETED and another FAILED.
C2_Witness ==
    \E j, k \in Submitted : StatusOf(j) = COMPLETED /\ StatusOf(k) = FAILED

\* C3: jobs start processing in submission order: a later-submitted job
\* has left PENDING only if every earlier-submitted job is COMPLETED or
\* FAILED.
C3_Fifo ==
    \A a, b \in Submitted :
        (a < b /\ StatusOf(b) # PENDING) => StatusOf(a) \in Terminal

\* The second job is PROCESSING after the first ended, the third waits.
C3_Witness ==
    /\ Len(jobs) >= 3
    /\ StatusOf(1) \in Terminal
    /\ StatusOf(2) = PROCESSING
    /\ StatusOf(3) = PENDING
    /\ startOrder = <<1, 2>>

\* C4: under FairSpec (every collaborator call eventually settles) every
\* submitted job eventually is COMPLETED or FAILED, whatever happened to
\* the jobs before it.
\* (Stated as: again and again, every job submitted so far has ended; a
\* job submitted at any point is among those at the next such point.)
AllEnded == \A j \in Submitted : StatusOf(j) \in Terminal

C4_EveryJobEnds == []<>AllEnded

\* A job ended after an earlier job had failed.
C4_Witness ==
    \E a, b \in Submitted :
        /\ a < b
        /\ StatusOf(a) = FAILED
        /\ StatusOf(b) = COMPLETED
        /\ pc[b] = "done"

\* C5: a job whose collaborator call threw is FAILED with a non-null error
\* taken from the thrown value (its message, or String(err) when it has
\* none); no job whose body ended is PROCESSING, and the processing flag is
\* set only while some body is suspended.
C5_ThrowMeansFailed ==
    /\ \A j \in Submitted :
          /\ thrown[j] # NoThrow =>
                /\ StatusOf(j) = FAILED
                /\ jobs[j].error # NULL
                /\ jobs[j].error =
                      (IF thrown[j].kind = "Error" THEN thrown[j].message ELSE thrown[j].text)
          /\ pc[j] = "done" => StatusOf(j) \in Terminal
          /\ (settled[j].list = "rejected" \/ settled[j].generate = "rejected"
              \/ settled[j].upload = "rejected") => thrown[j] # NoThrow
    /\ processing => \E k \in Submitted : pc[k] \in Awaiting /\ StatusOf(k) = PROCESSING

\* The publish call rejected with a value that has no message.
C5_Witness ==
    \E j \in Submitted :
        /\ settled[j].upload = "rejected"
        /\ thrown[j].kind = "string"
        /\ StatusOf(j) = FAILED
        /\ ~processing

\* C6: add() returns while the job it recorded is PENDING or PROCESSING;
\* the job becomes COMPLETED or FAILED only in a later step.
C6_AddDoesNotWait ==
    [][lastAdd' # lastAdd =>
         /\ lastAdd' \in DOMAIN jobs'
         /\ jobs'[lastAdd'].status \in {PENDING, PROCESSING}
         /\ pc'[lastAdd'] \in {"none", "awaitList"}]_vars

\* add() has just returned to an idle queue: the job is PROCESSING with
\* its product lookup outstanding.
C6_Witness ==
    /\ lastAdd > 1
    /\ lastAdd = Len(jobs)
    /\ StatusOf(lastAdd) = PROCESSING
    /\ pc[lastAdd] = "awaitList"
    /\ \A j \in Submitted : j < lastAdd => pc[j] = "done"

\* C7: no retry. Each id leaves the queue at most once, each collaborator
\* is invoked at most once per job, and a FAILED id is not in the queue.
C7_NoRetry ==
    \A j \in JobIds :
        /\ shifts[j] <= 1
        /\ calls[j].list <= 1
        /\ calls[j].generate <= 1
        /\ calls[j].upload <= 1
        /\ (j \in Submitted /\ StatusOf(j) = FAILED) => ~InSeq(queue, j)

\* A job failed in the composer while another job was waiting.
C7_Witness ==
    \E j, k \in Submitted :
        /\ StatusOf(j) = FAILED
        /\ settled[j].generate = "rejected"
        /\ shifts[j] = 1
        /\ calls[j].generate = 1
        /\ j < k
        /\ shifts[k] = 1

\* A product with no usable URL: no truthy entry in an array mediaUrls,
\* and neither previewUrl nor link truthy.
NoUsableUrl(p) ==
    /\ (p.isArr => \A i \in 1..Len(p.mediaUrls) : ~Truthy(p.mediaUrls[i]))
    /\ ~Truthy(p.previewUrl)
    /\ ~Truthy(p.link)

\* C8: when the product collaborator returned no products the job is
\* FAILED with "No products in this category"; when every returned product
\* has no usable URL it is FAILED with "No product images found"; in both
\* cases the composer and the publish collaborator were never invoked.
C8_NoProductsFailsFast ==
    \A j \in Submitted :
        LET ps == settled[j].products
            none == Len(ps) = 0
            noUrls == Len(ps) > 0 /\ \A i \in 1..Len(ps) : NoUsableUrl(ps[i])
        IN  /\ (settled[j].list = "resolved" /\ none) =>
                  /\ StatusOf(j) = FAILED
                  /\ jobs[j].error = "No products in this category"
                  /\ calls[j].generate = 0
                  /\ calls[j].upload = 0
            /\ (settled[j].list = "resolved" /\ noUrls) =>
                  /\ StatusOf(j) = FAILED
                  /\ jobs[j].error = "No product images found"
                  /\ calls[j].generate = 0
                  /\ calls[j].upload = 0

\* One job got an empty product list and another got products without
\* any usable URL.
C8_Witness ==
    \E j, k \in Submitted :
        /\ settled[j].list = "resolved"
        /\ Len(settled[j].products) = 0
        /\ settled[k].list = "resolved"
        /\ Len(settled[k].products) > 0
        /\ \A i \in 1..Len(settled[k].products) : NoUsableUrl(settled[k].products[i])
        /\ StatusOf(j) = FAILED
        /\ StatusOf(k) = FAILED

C10_UrlAndErrorMatchStatus ==
    \A j \in Submitted :
        /\ jobs[j].videoUrl # NULL => StatusOf(j) = COMPLETED
        /\ jobs[j].error # NULL => StatusOf(j) = FAILED
        /\ StatusOf(j) = COMPLETED => jobs[j].error = NULL
        /\ StatusOf(j) = FAILED => jobs[j].videoUrl = NULL

\* One job completed with a videoUrl, another failed in the publish call,
\* a third is suspended in the publish call.
C10_Witness ==
    \E j, k, m \in Submitted :
        /\ StatusOf(j) = COMPLETED
        /\ jobs[j].videoUrl # NULL
        /\ StatusOf(k) = FAILED
        /\ settled[k].upload = "rejected"
        /\ jobs[k].error # NULL
        /\ pc[m] = "awaitUpload"

\* C11: progress takes only the values 0, 10, 20, 80, 100, is 0 on a
\* PENDING job, is 100 exactly on a COMPLETED job, never decreases, and is
\* left as it was by the step that makes the job FAILED.
Milestones == {0, 10, 20, 80, 100}

C11_ProgressMilestones ==
    [][\A j \in DOMAIN jobs' :
         /\ jobs'[j].progress \in Milestones
         /\ jobs'[j].status = PENDING => jobs'[j].progress = 0
         /\ jobs'[j].progress = 100 <=> jobs'[j].status = COMPLETED
         /\ j \in DOMAIN jobs =>
               /\ jobs'[j].progress >= jobs[j].progress
               /\ (jobs'[j].status = FAILED /\ jobs[j].status # FAILED) =>
                     jobs'[j].progress = jobs[j].progress]_vars

\* Jobs failed at 10 (product lookup) and at 80 (publish), one completed.
C11_Witness ==
    \E a, b, c \in Submitted :
        /\ StatusOf(a) = FAILED /\ jobs[a].progress = 10
        /\ StatusOf(b) = FAILED /\ jobs[b].progress = 80
        /\ StatusOf(c) = COMPLETED /\ jobs[c].progress = 100

LastMessage(d) == IF d.lastError # "" THEN d.lastError ELSE "Download failed"

Annotated(d) ==
    LastMessage(d) \o " after " \o ToString(d.retries + 1) \o " attempts"

C13_AnnotatedForEveryBudget ==
    dl.phase = "rejected" => dl.message = Annotated(dl)

\* C13: the rejection message is the last attempt's message ("Download
\* failed" when it has none), followed by " after <retries + 1> attempts"
\* when retries >= 1 and by nothing when retries = 0.
C13_AnnotatedWhenRetried ==
    dl.phase = "rejected" =>
        dl.message = IF dl.retries >= 1 THEN Annotated(dl) ELSE LastMessage(dl)

\* One attempt, no retry: the message is the bare "HTTP 404".
C13_Witness ==
    /\ dl.phase = "rejected"
    /\ dl.retries = 0
    /\ dl.lastError = HttpError(404)
    /\ dl.message = "HTTP 404"

\* C14 as stated: after a rejection no file is at the destination, after a
\* resolution the file is there.
C14_NoFileAfterReject ==
    /\ dl.phase = "rejected" => ~dl.file
    /\ dl.phase = "resolved" => dl.file

\* C15: a response that is not followed as a redirect is accepted exactly
\* when its status is 200; with any other status the attempt fails with
\* "HTTP <status>", no write stream is created and the destination is left
\* as it was.
C15_Only200Succeeds ==
    [][(dl'.responses # dl.responses
          /\ ~(IsRedirectStatus(dl'.status) /\ dl'.location.kind # "none")) =>
         /\ dl'.phase = "opening" <=> dl'.status = 200
         /\ dl'.status # 200 =>
               /\ dl'.phase \in {"backoff", "rejected"}
               /\ dl'.lastError = HttpError(dl'.status)
               /\ dl'.file = dl.file
               /\ dl'.stale = dl.stale]_vars

\* A 302 without Location on the last attempt: rejected with "HTTP 302".
C15_Witness ==
    /\ dl.phase = "rejected"
    /\ dl.status = 302
    /\ dl.location = NoLocation
    /\ dl.lastError = "HTTP 302"
    /\ ~dl.file

C17_ValidationFirst ==
    (gen.phase # "idle" /\
       (~gen.imageUrls.given \/ gen.imageUrls.list = <<>> \/ ~gen.outputPath)) =>
        /\ gen.phase = "rejected"
        /\ gen.message =
              IF ~gen.imageUrls.given \/ gen.imageUrls.list = <<>>
              THEN "At least one image URL is required"
              ELSE "outputPath is required"
        /\ ~gen.tmpMade
        /\ gen.fetched = <<>>
        /\ gen.spawned = 0

\* A list of two URLs without outputPath.
C17_Witness ==
    /\ gen.phase = "rejected"
    /\ gen.imageUrls.list = <<"url", "url">>
    /\ ~gen.outputPath
    /\ gen.message = "outputPath is required"

\* C18 as stated: a call that got past validation and ends with zero
\* images downloaded has failed with "No valid images could be downloaded",
\* whether every entry was skipped or the attempted downloads failed
\* (lists with an entry that does not parse as a URL are left aside).
NoValidImages == "No valid images could be downloaded"

C18_ZeroImagesOneMessage ==
    (GenSettled(gen) /\ gen.tmpMade /\ gen.localPaths = <<>>
       /\ \A k \in 1..Len(gen.imageUrls.list) : gen.imageUrls.list[k] # "bad") =>
        (gen.phase = "rejected" /\ gen.message = NoValidImages)

ImageFetchFailed(g) ==
    /\ g.failedFetch
    /\ g.fetched[Len(g.fetched)] # AudioFile

\* C18: the call fails with "No valid images could be downloaded" when
\* every entry of imageUrls is null, empty or not a string, so that no
\* download is attempted; when an attempted image download fails the call
\* rejects with that download's error.
C18_SkippedOrDownloadError ==
    /\ (GenSettled(gen) /\ gen.tmpMade
          /\ \A k \in 1..Len(gen.imageUrls.list) : Skipped(gen.imageUrls.list[k])) =>
            /\ gen.phase = "rejected"
            /\ gen.message = NoValidImages
            /\ gen.fetched = <<>>
    /\ (GenSettled(gen) /\ ImageFetchFailed(gen)) =>
            /\ gen.phase = "rejected"
            /\ gen.message \in {f.message : f \in DownloadFailures(IMAGE_RETRIES)}

\* Two URLs, the first download fails: zero images, the fetcher's message.
C18_Witness ==
    /\ gen.phase = "rejected"
    /\ gen.imageUrls.list = <<"url", "url">>
    /\ gen.localPaths = <<>>
    /\ ImageFetchFailed(gen)
    /\ gen.message = "HTTP 404 after 2 attempts"

\* C19 as stated: the effective transition duration is 0 for cut, and
\* otherwise the requested duration clamped into [0, slideDuration - 0.05];
\* it is never negative and never more than the slide duration.  Stated
\* for numeric options and slides long enough for the interval to exist.
C19_ClampOfRequested ==
    (gen.plan.made /\ gen.fadeDuration.k = "num" /\ gen.slideDuration.k = "num"
       /\ gen.slideDuration.v >= 50) =>
        LET t == gen.plan.safeTransitionDuration
            requested == gen.fadeDuration.v
            slide == gen.slideDuration.v
        IN  /\ gen.plan.transitionName = "cut" => t = 0
            /\ gen.plan.transitionName # "cut" =>
                  t = Max(0, Min(requested, slide - 50))
            /\ t >= 0
            /\ t <= slide

\* A duration option as the composer takes it: the fallback replaces a
\* value that is not a positive finite number.
Taken(value, fallback) ==
    IF value.k = "num" /\ value.v > 0 THEN value.v ELSE fallback

\* C19: the effective transition duration is 0 for cut; otherwise it is
\* the requested duration, replaced by 0.5 s when it is not a positive
\* finite number, clamped into [0, max(0, slide - 0.05)], where slide is
\* the requested slide duration, replaced by 3 s when it is not a positive
\* finite number; it is never negative and never more than that slide.
C19_ClampOfTakenDuration ==
    gen.plan.made =>
        LET t == gen.plan.safeTransitionDuration
            requested == Taken(gen.fadeDuration, 500)
            slide == Taken(gen.slideDuration, 3000)
        IN  /\ gen.plan.safeSlideDuration = slide
            /\ gen.plan.transitionName = "cut" => t = 0
            /\ gen.plan.transitionName # "cut" =>
                  t = Max(0, Min(requested, Max(0, slide - 50)))
            /\ t >= 0
            /\ t <= slide

\* 4 s requested on 3 s slides: clamped to 2.95 s.
C19_Witness ==
    /\ gen.plan.made
    /\ gen.slideDuration = Num(3000)
    /\ gen.fadeDuration = Num(4000)
    /\ gen.plan.transitionName = "slideleft"
    /\ gen.plan.safeTransitionDuration = 2950

\* C20: with more than one slide, a non-cut transition and an effective
\* duration t > 0, slide i carries a fade-in (start 0, duration t) unless
\* it is the first and a fade-out (start slide - t, duration t) unless it
\* is the last, in that order and nothing else; with one slide, with cut
\* or with t = 0 no slide carries a fade.  Two slides of 3 s with the
\* default 0.5 s: fade-out at 2.5 s on the first, fade-in at 0 on the
\* second.
C20_FadesBetweenSlides ==
    gen.plan.made =>
        LET n == gen.plan.n
            t == gen.plan.safeTransitionDuration
            slide == gen.plan.safeSlideDuration
            in == [t |-> "in", st |-> 0, d |-> t]
            out == [t |-> "out", st |-> slide - t, d |-> t]
        IN  /\ n = Len(gen.localPaths)
            /\ DOMAIN gen.plan.chains = 1..n
            /\ (n > 1 /\ gen.plan.transitionName # "cut" /\ t > 0) =>
                  \A i \in 1..n :
                      gen.plan.chains[i] =
                          (IF i > 1 THEN <<in>> ELSE <<>>)
                          \o (IF i < n THEN <<out>> ELSE <<>>)
            /\ (n = 1 \/ gen.plan.transitionName = "cut" \/ t = 0) =>
                  \A i \in 1..n : gen.plan.chains[i] = <<>>
            /\ (n = 2 /\ gen.slideDuration = Num(3000)
                  /\ gen.fadeDuration = NotANumber
                  /\ gen.plan.transitionName # "cut") =>
                  /\ gen.plan.chains[1] = <<[t |-> "out", st |-> 2500, d |-> 500]>>
                  /\ gen.plan.chains[2] = <<[t |-> "in", st |-> 0, d |-> 500]>>

\* Three slides of 3 s, 0.7 s fades: the middle slide fades in and out.
C20_Witness ==
    /\ gen.plan.made
    /\ gen.plan.n = 3
    /\ gen.plan.chains[1] = <<[t |-> "out", st |-> 2300, d |-> 700]>>
    /\ gen.plan.chains[2] = <<[t |-> "in", st |-> 0, d |-> 700],
                              [t |-> "out", st |-> 2300, d |-> 700]>>
    /\ gen.plan.chains[3] = <<[t |-> "in", st |-> 0, d |-> 700]>>

C22_OptionsCannotOverride ==
    [][Len(jobs') = Len(jobs) + 1 =>
         LET job == jobs'[lastAdd']
         IN  /\ job.id = lastAdd'
             /\ job.ownerId \in Owners
             /\ job.categoryId \in Categories
             /\ \/ job.status = PENDING /\ job.progress = 0
                \/ job.status = PROCESSING /\ job.progress = 10
             /\ job.videoUrl = NULL
             /\ job.error = NULL]_vars

\* C23: within one attempt at most maxRedirects redirects are followed;
\* a followed redirect lowers the remaining budget by one and moves the
\* request to the Location resolved against the URL that answered; a 3xx
\* with Location at budget 0 fails the attempt with "Too many redirects";
\* every attempt, the first and each retry, starts at the original URL with
\* the full budget.
RedirectAnswer(d) == IsRedirectStatus(d.status) /\ d.location.kind # "none"

C23_RedirectBudget ==
    /\ [](dl.hops <= dl.maxRedirects /\ dl.left = dl.maxRedirects - dl.hops)
    /\ [][/\ (dl'.responses # dl.responses /\ RedirectAnswer(dl') /\ dl.left > 0) =>
               /\ dl'.phase = "request"
               /\ dl'.left = dl.left - 1
               /\ dl'.hops = dl.hops + 1
               /\ dl'.attempts = dl.attempts
               /\ dl'.url =
                    IF dl'.location.kind = "absolute"
                    THEN [origin |-> dl'.location.origin,
                          path |-> dl'.location.path]
                    ELSE IF dl'.location.kind = "root"
                    THEN [origin |-> dl.url.origin, path |-> dl'.location.path]
                    ELSE [origin |-> dl.url.origin,
                          path |-> SubSeq(dl.url.path, 1, Len(dl.url.path) - 1)
                                   \o dl'.location.path]
          /\ (dl'.responses # dl.responses /\ RedirectAnswer(dl') /\ dl.left = 0) =>
               /\ dl'.phase \in {"backoff", "rejected"}
               /\ dl'.lastError = "Too many redirects"
               /\ dl'.url = dl.url
          /\ (dl'.attempts # dl.attempts /\ dl'.phase = "request") =>
               /\ dl'.url = OriginalUrl
               /\ dl'.left = dl'.maxRedirects
               /\ dl'.hops = 0]_vars

\* The second attempt, back at the original URL with the whole budget,
\* after a first attempt that had moved to the other origin and used the
\* budget up.
C23_Witness ==
    /\ dl.phase = "request"
    /\ dl.attempts = 2
    /\ dl.lastError = TooManyRedirects
    /\ dl.maxRedirects = 1
    /\ dl.left = 1
    /\ dl.url = OriginalUrl

\* The files of the entries of list that are URLs, in input order.
UrlFiles(list) ==
    LET IsUrl(k) == list[k] = "url"
        pos == SelectSeq([k \in 1..Len(list) |-> k], IsUrl)
    IN  [j \in 1..Len(pos) |-> ImageFile(pos[j] - 1)]

IsPrefix(s, t) == Len(s) <= Len(t) /\ s = SubSeq(t, 1, Len(s))

AudioFetched(g) ==
    Len(g.fetched) > 0 /\ g.fetched[Len(g.fetched)] = AudioFile

ImagesFetched(g) ==
    IF AudioFetched(g) THEN SubSeq(g.fetched, 1, Len(g.fetched) - 1)
    ELSE g.fetched

\* C24: images are fetched one at a time in input order, skipped entries
\* (null, empty, non-string) without a fetch; the audio is fetched after
\* all images; the encoder is spawned last and at most once, never after a
\* failed fetch, and its slides are the fetched images in input order.
C24_FixedOrder ==
    /\ [](/\ IsPrefix(ImagesFetched(gen), UrlFiles(gen.imageUrls.list))
          /\ IsPrefix(gen.localPaths, ImagesFetched(gen))
          /\ Len(ImagesFetched(gen)) <= Len(gen.localPaths) + 1
          /\ gen.phase = "image" =>
                Len(ImagesFetched(gen)) = Len(gen.localPaths) + 1
          /\ AudioFetched(gen) =>
                /\ gen.audioUrl
                /\ gen.localPaths = UrlFiles(gen.imageUrls.list)
                /\ \A k \in 1..Len(gen.imageUrls.list) :
                       gen.imageUrls.list[k] # "bad"
          /\ gen.spawned <= 1
          /\ gen.failedFetch => gen.spawned = 0
          /\ gen.spawned = 1 =>
                /\ gen.localPaths = UrlFiles(gen.imageUrls.list)
                /\ gen.audioUrl <=> AudioFetched(gen)
                /\ gen.args.inputs =
                       gen.localPaths
                       \o (IF gen.audioUrl THEN <<AudioFile>> ELSE <<>>))
    /\ [][gen.spawned = 1 =>
            (gen'.fetched = gen.fetched /\ gen'.spawned = 1)]_vars

\* Two images and the audio fetched in that order, the encoder running.
C24_Witness ==
    /\ gen.phase = "ffmpeg"
    /\ gen.imageUrls.list = <<"url", "url">>
    /\ gen.fetched = <<ImageFile(0), ImageFile(1), AudioFile>>
    /\ gen.args.inputs = <<ImageFile(0), ImageFile(1), AudioFile>>
    /\ gen.spawned = 1

\* C25: as long as the call the PROCESSING job is waiting for has not
\* settled, nothing takes the job out of PROCESSING and nothing starts
\* another job: every step in that time is an add(), which records its job
\* as PENDING with progress 0 at the end of the queue and returns its id,
\* and leaves every other job (as get() shows it) as it was.
C25_HangBlocksQueue ==
    [][((\E p \in Submitted : StatusOf(p) = PROCESSING) /\ settled' = settled) =>
         /\ processing'
         /\ \A j \in Submitted : jobs'[j] = jobs[j] /\ pc'[j] = pc[j]
         /\ \A j \in DOMAIN jobs' \ Submitted :
               /\ lastAdd' = j
               /\ jobs'[j].status = PENDING
               /\ jobs'[j].progress = 0
               /\ queue' = Append(queue, j)
               /\ pc'[j] = "none"
               /\ calls'[j].list = 0]_vars

\* The first job still waits for the encoder while two later ones have
\* been added and are PENDING in the queue.
C25_Witness ==
    /\ Len(jobs) >= 3
    /\ StatusOf(1) = PROCESSING
    /\ pc[1] = "awaitGenerate"
    /\ StatusOf(2) = PENDING
    /\ StatusOf(3) = PENDING
    /\ queue = <<2, 3>>
    /\ lastAdd = 3

\* C26: every transition type that normalizes to a style other than cut
\* (fade, slideleft, slideright, wipeleft, wiperight, dissolve; an
\* unrecognized or missing name normalizes to fade) gives, for the same
\* images, durations and audio, the filter graph and encoder arguments
\* that "fade" gives.
NonCutStyles ==
    {"fade", "slideleft", "slideright", "wipeleft", "wiperight", "dissolve"}

C26_StyleMakesNoDifference ==
    gen.args.made =>
        /\ gen.plan.transitionName \in NonCutStyles \cup {"cut"}
        /\ gen.transitionType \in {<<>>, <<"b", "o", "g", "u", "s">>} =>
              gen.plan.transitionName = "fade"
        /\ gen.plan.transitionName # "cut" =>
              gen.args =
                  EncoderArgs(gen.localPaths,
                              FilterPlan(Len(gen.localPaths), gen.slideDuration,
                                         gen.fadeDuration, <<"f", "a", "d", "e">>),
                              gen.audioUrl)

\* Three slides with "Wipe-Right" and audio: the fades of "fade".
C26_Witness ==
    /\ gen.args.made
    /\ gen.audioUrl
    /\ gen.plan.transitionName = "wiperight"
    /\ gen.plan.n = 3
    /\ gen.args.chains[2] = <<[t |-> "in", st |-> 0, d |-> 700],
                              [t |-> "out", st |-> 2300, d |-> 700]>>

\* C27: with options of render keys only, in every reachable state the
\* pending queue is exactly the ids of the PENDING jobs, each once and in
\* submission order, and every id taken off the queue was started: the
\* "no longer PENDING, skip" branch is never taken.
PendingIds ==
    LET IsPending(j) == jobs[j].status = PENDING
    IN  SelectSeq([i \in 1..Len(jobs) |-> i], IsPending)

C27_QueueIsPendingInOrder ==
    /\ queue = PendingIds
    /\ \A j \in JobIds : shifts[j] = Count(startOrder, j)

\* The first job has ended, the second is running and the third waits:
\* two ids have been taken off the queue and both were started.
C27_Witness ==
    /\ Len(jobs) = 3
    /\ StatusOf(1) \in {COMPLETED, FAILED}
    /\ StatusOf(2) = PROCESSING
    /\ queue = <<3>>
    /\ shifts[1] = 1 /\ shifts[2] = 1 /\ shifts[3] = 0
    /\ startOrder = <<1, 2>>

\* C28: the queue is work-conserving. In every reachable state the
\* processing flag is set exactly when one job is PROCESSING, the pending
\* queue is non-empty only while some job is PROCESSING, and no job is
\* PENDING while the queue is idle.
NumProcessing == Cardinality({j \in Submitted : StatusOf(j) = PROCESSING})

C28_WorkConserving ==
    /\ processing <=> NumProcessing = 1
    /\ ~processing <=> NumProcessing = 0
    /\ Len(queue) > 0 => NumProcessing = 1
    /\ ~processing => \A j \in Submitted : StatusOf(j) # PENDING

\* A job has failed and the queue went straight on to the waiting one:
\* the flag is set again and one job is PROCESSING.
C28_Witness ==
    /\ Len(jobs) = 3
    /\ StatusOf(1) = FAILED
    /\ StatusOf(2) = PROCESSING
    /\ StatusOf(3) = PENDING
    /\ processing
    /\ pc[2] = "awaitList"

\* C29: what add() leaves behind when it returns. If no job was PROCESSING
\* when it was called, the new job is PROCESSING with progress 10 and its
\* product lookup has been called; if a job was PROCESSING, the new job is
\* PENDING with progress 0 and its id is the last of the pending queue.
WasBusy == \E p \in Submitted : StatusOf(p) = PROCESSING

C29_AddStartsOrQueues ==
    [][lastAdd' # lastAdd =>
         LET j == lastAdd'
         IN  /\ j \in DOMAIN jobs' /\ j \notin Submitted
             /\ ~WasBusy =>
                   /\ jobs'[j].status = PROCESSING
                   /\ jobs'[j].progress = 10
                   /\ processing'
                   /\ pc'[j] = "awaitList"
                   /\ calls'[j].list = 1
                   /\ ~InSeq(queue', j)
             /\ WasBusy =>
                   /\ jobs'[j].status = PENDING
                   /\ jobs'[j].progress = 0
                   /\ pc'[j] = "none"
                   /\ calls'[j].list = 0
                   /\ queue' = Append(queue, j)]_vars

\* The first add() found the queue idle and its job is still waiting for
\* the product lookup at progress 10; the third add() has just returned
\* with its job PENDING behind the second.
C29_Witness ==
    /\ lastAdd = 3
    /\ StatusOf(1) = PROCESSING /\ jobs[1].progress = 10
    /\ pc[1] = "awaitList" /\ calls[1].list = 1
    /\ StatusOf(3) = PENDING /\ jobs[3].progress = 0
    /\ queue = <<2, 3>>

\* C30: for a style other than cut, a requested transition duration that
\* is 0, negative or not finite counts as the default 0.5 s before the
\* clamp, whether the composer is called directly or through the queue's
\* `|| 0.5`; the effective duration is 0 only when slideDuration <= 0.05 s,
\* and otherwise every boundary of a multi-slide video is faded.
NotPositive(value) == value.k # "num" \/ value.v <= 0

C30_ZeroRequestStillFades ==
    (gen.plan.made /\ gen.plan.transitionName # "cut") =>
        LET p == gen.plan
            fd == gen.fadeDuration
            sd == gen.slideDuration
        IN  /\ NotPositive(fd) =>
                  p.safeTransitionDuration =
                      Min(DEFAULT_FADE_DURATION,
                          Max(0, p.safeSlideDuration - TransitionMargin))
            /\ p = FilterPlan(Len(gen.localPaths), sd,
                              OrDefault(fd, DefaultFadeMs), gen.transitionType)
            /\ p.safeTransitionDuration = 0 =>
                  sd.k = "num" /\ sd.v <= TransitionMargin
            /\ (p.n > 1 /\ ~(sd.k = "num" /\ sd.v <= TransitionMargin)) =>
                  /\ p.safeTransitionDuration > 0
                  /\ \A i \in 1..(p.n - 1) :
                        /\ FadeOut(p.safeSlideDuration - p.safeTransitionDuration,
                                   p.safeTransitionDuration) \in
                              {p.chains[i][k] : k \in 1..Len(p.chains[i])}
                        /\ FadeIn(p.safeTransitionDuration) \in
                              {p.chains[i + 1][k] : k \in 1..Len(p.chains[i + 1])}

\* Three 3-second slides, a dissolve and a requested duration of 0: the
\* middle slide fades in and out over the default half second.
C30_Witness ==
    /\ gen.plan.made
    /\ gen.plan.n = 3
    /\ gen.plan.transitionName = "dissolve"
    /\ gen.fadeDuration = Num(0)
    /\ gen.slideDuration = Num(3000)
    /\ gen.plan.safeTransitionDuration = 500
    /\ gen.plan.chains[2] = <<[t |-> "in", st |-> 0, d |-> 500],
                              [t |-> "out", st |-> 2500, d |-> 500]>>

====
